---- MODULE Spec2Model ----
(***************************************************************************)
(* A model of the cov / cargo-cov repository.                              *)
(*                                                                         *)
(* Strings are byte strings: every character of a TLA+ string stands for   *)
(* one byte.  ASCII bytes stand for themselves.  Three stand-in bytes give *)
(* the model multi-byte UTF-8:                                             *)
(*    "#"  the lead byte of a 2-byte character   ("#~" is one character)   *)
(*    "%"  the lead byte of a 3-byte character   ("%~~" is one character)  *)
(*    "~"  a continuation byte                                             *)
(* so Len is Rust's str::len / OsStr::len (a byte count) and a string with *)
(* a stray "~", or a lead byte without its continuation bytes, is an OsStr *)
(* that is not valid UTF-8.  Paths follow the Unix rules of std::path      *)
(* (MAIN_SEPARATOR is "/").  Option<T> is a sequence of length 0 or 1.     *)
(***************************************************************************)
EXTENDS Integers, Sequences, FiniteSets, TLC

VARIABLES
    \* cargo-cov/src/sourcepath.rs
    cargo_home,         \* the environment: Option<PathBuf> returned by home::cargo_home()
    registry,           \* the lazy_static REGISTRY_PATH: "uninit", "ready" or "poisoned"
    path,               \* identify_source_path: argument `path`
    crates_path,        \* identify_source_path: argument `crates_path`
    identified          \* identify_source_path: what the call did

sourcepathVars == <<cargo_home, registry, path, crates_path, identified>>

VARIABLES
    \* cargo-cov/src/argparse.rs: is_rustc_compiling_local_crate
    rustc_args,         \* argument `args`
    workspace_path,     \* argument `workspace_path`
    compiling_local     \* Option<bool>: the value returned, None before the call

rustcVars == <<rustc_args, workspace_path, compiling_local>>

VARIABLES
    \* cargo-cov/src/argparse.rs: normalize
    norm_args,          \* argument `args`
    specialized0,       \* the map `specialized` as the caller passes it
    specialized,        \* the map `specialized`
    normalized          \* Option<Vec>: the vector returned, None before the call

normalizeVars == <<norm_args, specialized0, specialized, normalized>>

VARIABLES
    \* cargo-cov/src/argparse.rs: ReportConfig::parse (allowed_source_types)
    include,                \* matches.values_of("include"): Option<sequence of names>
    multi,                  \* Option<Result>: what from_multi_str returned, None if not called
    allowed_source_types    \* what the initialiser of allowed_source_types did

configVars == <<include, multi, allowed_source_types>>

VARIABLES
    \* cov: the symbol interner shared by the decoding tasks
    symbols,            \* the interner: the strings in insertion order; SymbolId k is symbols[k + 1]
    task_pc,            \* per task: "idle", or "insert" after a lookup that missed
    task_str,           \* per task: the string being interned
    task_left,          \* per task: the intern calls it still makes
    interned            \* every (string, id, how) an intern call has returned

internerVars == <<symbols, task_pc, task_str, task_left, interned>>

VARIABLES
    \* cov: the counter merger, for one function
    arc_counts,         \* per arc of the function: Option<count>
    data_files,         \* the data files of the profiling runs, one record each
    merged,             \* the data files merged so far
    warnings            \* the data files refused with a ChecksumError

mergeVars == <<arc_counts, data_files, merged, warnings>>

VARIABLES
    \* cov: the arc inference engine, run twice on one graph
    graph,              \* the function's graph
    known,              \* per arc: Option<count> before inference
    counts,             \* per run, per arc: Option<count>
    status              \* per run: "running", "ok" or "UnderconstrainedGraphError"

inferVars == <<graph, known, counts, status>>

vars ==
    <<sourcepathVars, rustcVars, normalizeVars, configVars, internerVars,
      mergeVars, inferVars>>

None == <<>>
Some(x) == <<x>>

(***************************************************************************)
(* Bounds of the model.                                                    *)
(***************************************************************************)
\* A source path is the concatenation of at most MaxFragments fragments.
MaxFragments == 2
\* rustc is given at most MaxRustcArgs arguments.
MaxRustcArgs == 3
\* normalize is given at most MaxNormArgs arguments.
MaxNormArgs == 3
\* --include names at most MaxIncludes categories.
MaxIncludes == 2
\* NumTasks tasks share the interner; each makes at most MaxInterns calls.
NumTasks == 2
MaxInterns == 2
\* NumRuns profiling runs are merged.
NumRuns == 2
\* A count of a flow-conserving assignment is at most MaxFlow.
MaxFlow == 4

(***************************************************************************)
(* str helpers (std), as the code uses them.                               *)
(***************************************************************************)
\* str::starts_with(&str)
starts_with(s, p) == Len(p) <= Len(s) /\ SubSeq(s, 1, Len(p)) = p

\* str::ends_with(&str)
ends_with(s, p) == Len(p) <= Len(s) /\ SubSeq(s, Len(s) - Len(p) + 1, Len(s)) = p

\* &s[n..]
slice_from(s, n) == SubSeq(s, n + 1, Len(s))

\* &s[..n]
slice_to(s, n) == SubSeq(s, 1, n)

\* str::find(char) for a one-byte char: Some(byte index from 0) or None
RECURSIVE find_from(_, _, _)
find_from(s, c, i) ==
    IF i > Len(s) THEN None
    ELSE IF SubSeq(s, i, i) = c THEN Some(i - 1)
    ELSE find_from(s, c, i + 1)

find(s, c) == find_from(s, c, 1)

\* char::len_utf8 of a separator
len_utf8(c) == Len(c)

\* str::is_char_boundary
is_char_boundary(s, n) ==
    /\ 0 <= n
    /\ n <= Len(s)
    /\ (n = 0 \/ n = Len(s) \/ SubSeq(s, n + 1, n + 1) # "~")

\* The number of bytes of the UTF-8 character that starts at byte i of s
\* (1-based), or 0 when no valid character starts there.
char_width(s, i) ==
    LET b == SubSeq(s, i, i)
    IN  IF b = "#"
          THEN IF SubSeq(s, i + 1, i + 1) = "~" THEN 2 ELSE 0
        ELSE IF b = "%"
          THEN IF SubSeq(s, i + 1, i + 2) = "~~" THEN 3 ELSE 0
        ELSE IF b = "~" THEN 0
        ELSE 1

\* OsStr::to_str().is_some(): the bytes are valid UTF-8
RECURSIVE is_utf8_from(_, _)
is_utf8_from(s, i) ==
    IF i > Len(s) THEN TRUE
    ELSE LET w == char_width(s, i)
         IN  w > 0 /\ is_utf8_from(s, i + w)

is_utf8(s) == is_utf8_from(s, 1)

\* The bytes of an invalid sequence that one U+FFFD replaces: a truncated
\* 3-byte character "%~" is replaced as a whole, anything else byte by byte.
invalid_width(s, i) ==
    IF SubSeq(s, i, i) = "%" /\ SubSeq(s, i + 1, i + 1) = "~" THEN 2 ELSE 1

\* OsStr::to_string_lossy: every invalid sequence becomes U+FFFD ("%~~")
RECURSIVE to_string_lossy_from(_, _)
to_string_lossy_from(s, i) ==
    IF i > Len(s) THEN ""
    ELSE LET w == char_width(s, i)
         IN  IF w > 0
               THEN SubSeq(s, i, i + w - 1) \o to_string_lossy_from(s, i + w)
               ELSE "%~~" \o to_string_lossy_from(s, i + invalid_width(s, i))

\* IntoStringLossy for OsString / PathBuf
into_string_lossy(s) == IF is_utf8(s) THEN s ELSE to_string_lossy_from(s, 1)

(***************************************************************************)
(* cargo-cov/src/sourcepath.rs                                             *)
(***************************************************************************)
MAIN_SEPARATOR == "/"

MACOS_RUSTSRC_DIR == "/Users/travis/build/rust-lang/rust/"
DOCKER_RUSTSRC_DIR == "/checkout/"
WINDOWS_RUSTSRC_DIR == "C:\\projects\\rust\\"

\* PathBuf::push of a relative component
push(buf, component) ==
    IF buf # "" /\ ~ends_with(buf, MAIN_SEPARATOR)
    THEN buf \o MAIN_SEPARATOR \o component
    ELSE buf \o component

\* The initialiser of the lazy_static REGISTRY_PATH, given a cargo home.
registry_path_of(home) ==
    into_string_lossy(push(push(home, "registry"), "src")) \o MAIN_SEPARATOR

\* bitflags SourceType
SourceType_LOCAL == 1
SourceType_MACROS == 2
SourceType_UNKNOWN == 4
SourceType_CRATES == 8
SourceType_RUSTSRC == 16

Result(kind, source_type, prefix_len) ==
    [kind |-> kind, source_type |-> source_type, prefix_len |-> prefix_len]

Pending == Result("pending", 0, 0)
Panicked == Result("panic", 0, 0)
Returned(source_type, prefix_len) == Result("ok", source_type, prefix_len)

\* The CRATES branch cutting before the first separator instead of after it
\* (used to check that the cut point matters).
crates_branch_before_separator(p, registry_path) ==
    LET subpath == slice_from(p, Len(registry_path))
        found == find(subpath, MAIN_SEPARATOR)
        first_slash == IF found = None THEN 0 ELSE found[1]
    IN  Returned(SourceType_CRATES, Len(registry_path) + first_slash)

\* The CRATES branch: the registry prefix, then up to and including the
\* first separator of what follows.
crates_branch(p, registry_path) ==
    LET subpath == slice_from(p, Len(registry_path))
        found == find(subpath, MAIN_SEPARATOR)
        first_slash == IF found = None THEN 0
                       ELSE found[1] + len_utf8(MAIN_SEPARATOR)
    IN  Returned(SourceType_CRATES, Len(registry_path) + first_slash)

\* identify_source_path with the three hard-coded Rust source directories
\* tested first (used to check that the order of the rules matters).
identify_source_path_rustsrc_first(p, cp, home) ==
    IF starts_with(p, MACOS_RUSTSRC_DIR)
      THEN Returned(SourceType_RUSTSRC, Len(MACOS_RUSTSRC_DIR))
    ELSE IF starts_with(p, DOCKER_RUSTSRC_DIR)
      THEN Returned(SourceType_RUSTSRC, Len(DOCKER_RUSTSRC_DIR))
    ELSE IF starts_with(p, WINDOWS_RUSTSRC_DIR)
      THEN Returned(SourceType_RUSTSRC, Len(WINDOWS_RUSTSRC_DIR))
    ELSE IF starts_with(p, cp) THEN Returned(SourceType_LOCAL, Len(cp))
    ELSE IF home = None THEN Panicked
    ELSE IF starts_with(p, registry_path_of(home[1]))
      THEN crates_branch(p, registry_path_of(home[1]))
    ELSE IF starts_with(p, "<") /\ ends_with(p, " macros>") THEN Returned(SourceType_MACROS, 0)
    ELSE Returned(SourceType_UNKNOWN, 0)

\* identify_source_path(path, crates_path), with what the environment gives
\* for the cargo home.  Dereferencing REGISTRY_PATH with no cargo home
\* panics ("$CARGO_HOME is undefined").
identify_source_path(p, cp, home) ==
    IF starts_with(p, cp) THEN Returned(SourceType_LOCAL, Len(cp))
    ELSE IF home = None THEN Panicked
    ELSE IF starts_with(p, registry_path_of(home[1]))
      THEN crates_branch(p, registry_path_of(home[1]))
    ELSE IF starts_with(p, "<") /\ ends_with(p, " macros>") THEN Returned(SourceType_MACROS, 0)
    ELSE IF starts_with(p, MACOS_RUSTSRC_DIR)
      THEN Returned(SourceType_RUSTSRC, Len(MACOS_RUSTSRC_DIR))
    ELSE IF starts_with(p, DOCKER_RUSTSRC_DIR)
      THEN Returned(SourceType_RUSTSRC, Len(DOCKER_RUSTSRC_DIR))
    ELSE IF starts_with(p, WINDOWS_RUSTSRC_DIR)
      THEN Returned(SourceType_RUSTSRC, Len(WINDOWS_RUSTSRC_DIR))
    ELSE Returned(SourceType_UNKNOWN, 0)

\* The state of the lazy_static after a call: it is initialised (or
\* poisoned) only when the call gets past the first test.
registry_after(p, cp, home, before) ==
    IF starts_with(p, cp) THEN before
    ELSE IF home = None THEN "poisoned"
    ELSE "ready"

\* The environments, workspace strings and paths the calls are drawn from.
CargoHomes == {None, Some("/c"), Some("/w/c/"), Some("/#~"), Some("/h~")}

Workspaces == {"", "/w", "/w/", "/checkout/", "<", "/#~"}

Fragments(cp, home) ==
    {cp, MACOS_RUSTSRC_DIR, DOCKER_RUSTSRC_DIR, WINDOWS_RUSTSRC_DIR,
     "<", " macros>", "k/", "f.rs", "k/f.rs", "#~"}
    \cup (IF home = None THEN {} ELSE {registry_path_of(home[1])})

RECURSIVE Concatenations(_, _)
Concatenations(frags, n) ==
    IF n = 0 THEN {""}
    ELSE LET shorter == Concatenations(frags, n - 1)
         IN  shorter \cup {s \o f : s \in shorter, f \in frags}

InitSourcePath ==
    /\ cargo_home \in CargoHomes
    /\ crates_path \in Workspaces
    /\ path \in Concatenations(Fragments(crates_path, cargo_home), MaxFragments)
    /\ registry = "uninit"
    /\ identified = Pending

IdentifySourcePath ==
    /\ identified = Pending
    /\ identified' = identify_source_path(path, crates_path, cargo_home)
    /\ registry' = registry_after(path, crates_path, cargo_home, registry)
    /\ UNCHANGED <<cargo_home, path, crates_path>>

\* The component before any input is given to it.
IdleSourcePath ==
    /\ cargo_home = None
    /\ crates_path = ""
    /\ path = ""
    /\ registry = "uninit"
    /\ identified = Pending

(***************************************************************************)
(* Claims about identify_source_path.                                      *)
(***************************************************************************)
\* The rules of the claim, in its order; the last one always matches.
RuleMatches(k) ==
    CASE k = 1 -> starts_with(path, crates_path)
      [] k = 2 -> /\ cargo_home # None
                  /\ starts_with(path, registry_path_of(cargo_home[1]))
      [] k = 3 -> starts_with(path, "<") /\ ends_with(path, " macros>")
      [] k = 4 -> \E dir \in {MACOS_RUSTSRC_DIR, DOCKER_RUSTSRC_DIR, WINDOWS_RUSTSRC_DIR} :
                      starts_with(path, dir)
      [] k = 5 -> TRUE

FirstRule == CHOOSE k \in 1..5 : RuleMatches(k) /\ \A j \in 1..(k - 1) : ~RuleMatches(j)

RuleCategory ==
    <<SourceType_LOCAL, SourceType_CRATES, SourceType_MACROS,
      SourceType_RUSTSRC, SourceType_UNKNOWN>>

\* The cargo registry prefix can be computed, or is never looked at.
RegistryAvailable == cargo_home # None \/ starts_with(path, crates_path)

\* C1 as stated: every call returns, and returns the category of the first
\* rule that matches.
C1_TotalFirstRule ==
    identified # Pending =>
        /\ identified.kind = "ok"
        /\ identified.source_type = RuleCategory[FirstRule]

\* C1, amended: a call returns exactly one of the five categories, that of
\* the first rule that matches, whenever the path starts with the workspace
\* string or the cargo home is defined; with no cargo home and a path outside
\* the workspace string the call panics instead of returning.
C1_FirstRuleWhenRegistryAvailable ==
    identified # Pending =>
        IF RegistryAvailable
        THEN /\ identified.kind = "ok"
             /\ identified.source_type \in
                    {SourceType_LOCAL, SourceType_CRATES, SourceType_MACROS,
                     SourceType_RUSTSRC, SourceType_UNKNOWN}
             /\ identified.source_type = RuleCategory[FirstRule]
        ELSE identified.kind = "panic"

\* A path that starts with the workspace string and with a hard-coded Rust
\* source directory was classified LOCAL.
C1_Witness ==
    /\ identified.kind = "ok"
    /\ identified.source_type = SourceType_LOCAL
    /\ crates_path # ""
    /\ starts_with(path, DOCKER_RUSTSRC_DIR)

\* The bytes that prefix_len removes from the path.
Removed == slice_to(path, identified.prefix_len)

\* What the CRATES rule removes after the registry prefix: the first path
\* component and its separator.
ComponentAndSeparator(rest) ==
    /\ ends_with(rest, MAIN_SEPARATOR)
    /\ find(slice_to(rest, Len(rest) - Len(MAIN_SEPARATOR)), MAIN_SEPARATOR) = None

PrefixLenIsCutPoint ==
    /\ 0 <= identified.prefix_len
    /\ identified.prefix_len <= Len(path)
    /\ is_char_boundary(path, identified.prefix_len)

PrefixOfOtherRules ==
    /\ identified.source_type = SourceType_LOCAL => Removed = crates_path
    /\ identified.source_type = SourceType_RUSTSRC =>
           Removed \in {MACOS_RUSTSRC_DIR, DOCKER_RUSTSRC_DIR, WINDOWS_RUSTSRC_DIR}
    /\ identified.source_type \in {SourceType_MACROS, SourceType_UNKNOWN} =>
           identified.prefix_len = 0

\* C8 as stated: prefix_len is a cut point of the path and, for CRATES, it
\* removes the registry prefix plus the first path component and its
\* separator.
C8_PrefixLenAsStated ==
    identified.kind = "ok" =>
        /\ PrefixLenIsCutPoint
        /\ PrefixOfOtherRules
        /\ identified.source_type = SourceType_CRATES =>
               LET reg == registry_path_of(cargo_home[1])
               IN  /\ starts_with(Removed, reg)
                   /\ ComponentAndSeparator(slice_from(Removed, Len(reg)))

\* C8, amended: as stated, except that for CRATES the removed bytes are the
\* registry prefix alone when nothing after it contains a separator.
C8_PrefixLenValid ==
    identified.kind = "ok" =>
        /\ PrefixLenIsCutPoint
        /\ PrefixOfOtherRules
        /\ identified.source_type = SourceType_CRATES =>
               LET reg == registry_path_of(cargo_home[1])
                   rest == slice_from(Removed, Len(reg))
               IN  /\ starts_with(Removed, reg)
                   /\ IF find(slice_from(path, Len(reg)), MAIN_SEPARATOR) = None
                      THEN rest = ""
                      ELSE ComponentAndSeparator(rest)

\* A registry path with a crate directory: the cut is after its separator.
C8_Witness ==
    /\ identified.kind = "ok"
    /\ identified.source_type = SourceType_CRATES
    /\ identified.prefix_len = Len(registry_path_of(cargo_home[1])) + Len("k/")
    /\ identified.prefix_len < Len(path)

(***************************************************************************)
(* std::path, Unix: the components of a path.  "/" stands for RootDir;     *)
(* empty pieces and "." pieces are dropped, except a leading "." of a      *)
(* relative path.                                                          *)
(***************************************************************************)
\* The pieces of s between separators, from byte i on; piece is the piece
\* being read.
RECURSIVE split_from(_, _, _)
split_from(s, i, piece) ==
    IF i > Len(s) THEN <<piece>>
    ELSE IF SubSeq(s, i, i) = MAIN_SEPARATOR
      THEN <<piece>> \o split_from(s, i + 1, "")
    ELSE split_from(s, i + 1, piece \o SubSeq(s, i, i))

\* Path::has_root / Path::is_absolute
is_absolute(p) == starts_with(p, MAIN_SEPARATOR)

\* Path::is_relative
is_relative(p) == ~is_absolute(p)

\* Path::components
components(p) ==
    LET pieces == split_from(p, 1, "")
        keep(k) == /\ pieces[k] # ""
                   /\ (pieces[k] = "." => k = 1 /\ is_relative(p))
        RECURSIVE normal(_)
        normal(k) == IF k > Len(pieces) THEN <<>>
                     ELSE IF keep(k) THEN <<pieces[k]>> \o normal(k + 1)
                     ELSE normal(k + 1)
    IN  (IF is_absolute(p) THEN <<MAIN_SEPARATOR>> ELSE <<>>) \o normal(1)

\* Path::starts_with: component by component
path_starts_with(p, base) ==
    LET pc == components(p)
        bc == components(base)
    IN  Len(bc) <= Len(pc) /\ SubSeq(pc, 1, Len(bc)) = bc

(***************************************************************************)
(* cargo-cov/src/argparse.rs: is_rustc_compiling_local_crate               *)
(***************************************************************************)
RUSTC_FLAGS_WITH_VALUES ==
    {"--allow", "--cap-lints", "--cfg", "--codegen", "--color", "--crate-name",
     "--crate-type", "--deny", "--emit", "--error-format", "--explain",
     "--extern", "--forbid", "--out-dir", "--pretty", "--print", "--sysroot",
     "--target", "--unpretty", "--warn", "-A", "-C", "-D", "-F", "-l", "-L",
     "-o", "-W", "-Z"}

\* The loop of is_rustc_compiling_local_crate from argument i on.
RECURSIVE rustc_scan(_, _, _, _)
rustc_scan(args, workspace, i, skip_next) ==
    IF i > Len(args) THEN FALSE
    ELSE IF skip_next THEN rustc_scan(args, workspace, i + 1, FALSE)
    ELSE IF is_utf8(args[i]) /\ args[i] \in RUSTC_FLAGS_WITH_VALUES
      THEN rustc_scan(args, workspace, i + 1, TRUE)
    ELSE IF is_utf8(args[i]) /\ args[i] = "--" THEN FALSE
    ELSE IF is_utf8(args[i]) /\ starts_with(args[i], "-")
      THEN rustc_scan(args, workspace, i + 1, FALSE)
    ELSE is_relative(args[i]) \/ path_starts_with(args[i], workspace)

\* The loop without skip_next: the value of a flag is read as an argument of
\* its own (used to check that values are skipped).
RECURSIVE rustc_scan_no_skip(_, _, _, _)
rustc_scan_no_skip(args, workspace, i, skip_next) ==
    IF i > Len(args) THEN FALSE
    ELSE IF is_utf8(args[i]) /\ args[i] = "--" THEN FALSE
    ELSE IF is_utf8(args[i]) /\ starts_with(args[i], "-")
      THEN rustc_scan_no_skip(args, workspace, i + 1, FALSE)
    ELSE is_relative(args[i]) \/ path_starts_with(args[i], workspace)

is_rustc_compiling_local_crate_no_skip(args, workspace) ==
    rustc_scan_no_skip(args, workspace, 1, FALSE)

is_rustc_compiling_local_crate(args, workspace) ==
    rustc_scan(args, workspace, 1, FALSE)

\* The rustc arguments and workspace paths the calls are drawn from.
RustcArgs ==
    {"-C", "--emit", "-O", "--emit=link", "--", "-",
     "/w/src/lib.rs", "/w2/lib.rs", "src/lib.rs", "/w//./lib.rs",
     "-~", "/w/~.rs"}

WorkspacePaths == {"/w", "/w/", "src"}

RECURSIVE SeqsUpTo(_, _)
SeqsUpTo(S, n) ==
    IF n = 0 THEN {<<>>}
    ELSE LET shorter == SeqsUpTo(S, n - 1)
         IN  shorter \cup {Append(q, x) : q \in shorter, x \in S}

InitRustc ==
    /\ rustc_args \in SeqsUpTo(RustcArgs, MaxRustcArgs)
    /\ workspace_path \in WorkspacePaths
    /\ compiling_local = None

IsRustcCompilingLocalCrate ==
    /\ compiling_local = None
    /\ compiling_local' = Some(is_rustc_compiling_local_crate(rustc_args, workspace_path))
    /\ UNCHANGED <<rustc_args, workspace_path>>

IdleRustc ==
    /\ rustc_args = <<>>
    /\ workspace_path = ""
    /\ compiling_local = None

(***************************************************************************)
(* cargo-cov/src/argparse.rs: normalize                                    *)
(***************************************************************************)
SPECIALS == {"manifest-path", "target", "profiler"}

\* The local variables of normalize, with the map it updates.
NormState(current_name, encountered_double_minus, vec, map) ==
    [current_name |-> current_name,
     encountered_double_minus |-> encountered_double_minus,
     normalized |-> vec,
     specialized |-> map]

\* HashMap::insert
insert(map, name, value) == [map EXCEPT ![name] = Some(value)]

\* One iteration of the loop of normalize, for an argument that is valid
\* UTF-8 and starts with "--", no special name pending.
normalize_double_dash(st, arg) ==
    LET s == slice_from(arg, 2)
        eq_index == find(s, "=")
    IN  IF s = ""
          THEN NormState(None, TRUE, Append(st.normalized, arg), st.specialized)
        ELSE IF s \in SPECIALS
          THEN NormState(Some(s), FALSE, st.normalized, st.specialized)
        ELSE IF eq_index # None /\ slice_to(s, eq_index[1]) \in SPECIALS
          THEN NormState(None, FALSE, st.normalized,
                         insert(st.specialized, slice_to(s, eq_index[1]),
                                slice_from(s, eq_index[1] + 1)))
        ELSE NormState(None, FALSE, Append(st.normalized, arg), st.specialized)

\* One iteration of a loop that pushes the value of `--name value` too
\* (used to check that the value leaves the vector).
normalize_step_keeps_value(st, arg) ==
    IF st.encountered_double_minus
      THEN [st EXCEPT !.normalized = Append(@, arg)]
    ELSE IF st.current_name # None
      THEN NormState(None, FALSE, Append(st.normalized, arg),
                     insert(st.specialized, st.current_name[1], arg))
    ELSE IF is_utf8(arg) /\ starts_with(arg, "--")
      THEN normalize_double_dash(st, arg)
    ELSE [st EXCEPT !.normalized = Append(@, arg)]

\* One iteration of a loop that never looks at encountered_double_minus
\* (used to check that "--" ends the extraction).
normalize_step_no_double_minus(st, arg) ==
    IF st.current_name # None
      THEN NormState(None, FALSE, st.normalized,
                     insert(st.specialized, st.current_name[1], arg))
    ELSE IF is_utf8(arg) /\ starts_with(arg, "--")
      THEN normalize_double_dash(st, arg)
    ELSE [st EXCEPT !.normalized = Append(@, arg)]

\* One iteration of the loop of normalize.
normalize_step(st, arg) ==
    IF st.encountered_double_minus
      THEN [st EXCEPT !.normalized = Append(@, arg)]
    ELSE IF st.current_name # None
      THEN NormState(None, FALSE, st.normalized,
                     insert(st.specialized, st.current_name[1], arg))
    ELSE IF is_utf8(arg) /\ starts_with(arg, "--")
      THEN normalize_double_dash(st, arg)
    ELSE [st EXCEPT !.normalized = Append(@, arg)]

RECURSIVE normalize_loop(_, _, _)
normalize_loop(args, i, st) ==
    IF i > Len(args) THEN st
    ELSE normalize_loop(args, i + 1, normalize_step(st, args[i]))

\* normalize(args, specialized): the vector returned and the map left.
normalize(args, map) ==
    LET st == normalize_loop(args, 1, NormState(None, FALSE, <<>>, map))
    IN  [normalized |-> st.normalized, specialized |-> st.specialized]

\* The arguments and maps the calls are drawn from.
NormArgs ==
    {"--target", "--profiler", "--target=x", "--manifest-path=a=b", "--",
     "x", "--release", "--target=~", "--targets=x"}

EmptyMap == [name \in SPECIALS |-> None]

SpecialMaps == {EmptyMap, insert(EmptyMap, "target", "old")}

InitNormalize ==
    /\ norm_args \in SeqsUpTo(NormArgs, MaxNormArgs)
    /\ specialized0 \in SpecialMaps
    /\ specialized = specialized0
    /\ normalized = None

Normalize ==
    /\ normalized = None
    /\ normalized' = Some(normalize(norm_args, specialized).normalized)
    /\ specialized' = normalize(norm_args, specialized).specialized
    /\ UNCHANGED <<norm_args, specialized0>>

IdleNormalize ==
    /\ norm_args = <<>>
    /\ specialized0 = EmptyMap
    /\ specialized = EmptyMap
    /\ normalized = None

(***************************************************************************)
(* cargo-cov/src/sourcepath.rs: SourceType, and the allowed source types   *)
(* of cargo-cov/src/argparse.rs: ReportConfig::parse                       *)
(***************************************************************************)
\* a | b on the low `width` bits
RECURSIVE bitor(_, _, _)
bitor(a, b, width) ==
    IF width = 0 THEN 0
    ELSE (IF a % 2 = 1 \/ b % 2 = 1 THEN 1 ELSE 0)
         + 2 * bitor(a \div 2, b \div 2, width - 1)

\* SourceType is a u8
SourceTypeBits == 8

BitOr(a, b) == bitor(a, b, SourceTypeBits)

\* SourceType::empty()
SourceType_empty == 0

\* SourceType::all(): every flag the bitflags! block declares
SourceType_all ==
    BitOr(SourceType_LOCAL, BitOr(SourceType_MACROS, BitOr(SourceType_UNKNOWN,
        BitOr(SourceType_CRATES, SourceType_RUSTSRC))))

SourceType_DEFAULT ==
    BitOr(SourceType_LOCAL, BitOr(SourceType_MACROS, SourceType_UNKNOWN))

Ok(bits) == [ok |-> TRUE, bits |-> bits]

\* What evaluating the initialiser of allowed_source_types did.
Allowed(kind, bits) == [kind |-> kind, bits |-> bits]
UnsupportedSourceTypeName == [ok |-> FALSE, bits |-> 0]

\* impl FromStr for SourceType
from_str(s) ==
    CASE s = "local" -> Ok(SourceType_LOCAL)
      [] s = "macros" -> Ok(SourceType_MACROS)
      [] s = "rustsrc" -> Ok(SourceType_RUSTSRC)
      [] s = "crates" -> Ok(SourceType_CRATES)
      [] s = "unknown" -> Ok(SourceType_UNKNOWN)
      [] s = "all" -> Ok(SourceType_all)
      [] OTHER -> UnsupportedSourceTypeName

\* The loop of from_multi_str from string i on; `?` returns the first error.
RECURSIVE from_multi_str_loop(_, _, _)
from_multi_str_loop(strings, i, res) ==
    IF i > Len(strings) THEN Ok(res)
    ELSE IF ~from_str(strings[i]).ok THEN UnsupportedSourceTypeName
    ELSE from_multi_str_loop(strings, i + 1, BitOr(res, from_str(strings[i]).bits))

\* The loop with `res = s.parse()?` in the place of `res |= s.parse()?`
\* (used to check that the flags are accumulated).
RECURSIVE from_multi_str_loop_assign(_, _, _)
from_multi_str_loop_assign(strings, i, res) ==
    IF i > Len(strings) THEN Ok(res)
    ELSE IF ~from_str(strings[i]).ok THEN UnsupportedSourceTypeName
    ELSE from_multi_str_loop_assign(strings, i + 1, from_str(strings[i]).bits)

from_multi_str_assign(strings) == from_multi_str_loop_assign(strings, 1, SourceType_empty)

\* SourceType::from_multi_str
from_multi_str(strings) == from_multi_str_loop(strings, 1, SourceType_empty)

\* The initialiser of allowed_source_types in ReportConfig::parse:
\* map_or(DEFAULT, |it| from_multi_str(it).expect("SourceType"))
parse_allowed_source_types(inc) ==
    IF inc = None THEN Allowed("ok", SourceType_DEFAULT)
    ELSE IF from_multi_str(inc[1]).ok
      THEN Allowed("ok", from_multi_str(inc[1]).bits)
    ELSE Allowed("panic", SourceType_empty)

\* The category names --include is given.
IncludeNames ==
    {"local", "macros", "rustsrc", "crates", "unknown", "all", "Local", "std"}

InitConfig ==
    /\ include \in {None} \cup {Some(q) : q \in SeqsUpTo(IncludeNames, MaxIncludes)}
    /\ multi = None
    /\ allowed_source_types = Allowed("pending", SourceType_empty)

ParseReportConfig ==
    /\ allowed_source_types.kind = "pending"
    /\ allowed_source_types' = parse_allowed_source_types(include)
    /\ multi' = IF include = None THEN None ELSE Some(from_multi_str(include[1]))
    /\ UNCHANGED include

IdleConfig ==
    /\ include = None
    /\ multi = None
    /\ allowed_source_types = Allowed("pending", SourceType_empty)

(***************************************************************************)
(* cov: the symbol interner.  Its code is not among the source files (only *)
(* a caller, cov/examples/dump.rs, is); it is modelled from the            *)
(* specification: ids are dense and assigned on first insertion, nothing   *)
(* is removed, and the insert path is a single critical section that       *)
(* looks the string up again before it inserts.                            *)
(***************************************************************************)
Tasks == 1..NumTasks

InternedStrings == {"a.rs", "f", "g"}

\* The id of string s in the table, or None
lookup(table, s) ==
    IF \E k \in DOMAIN table : table[k] = s
    THEN Some((CHOOSE k \in DOMAIN table : table[k] = s) - 1)
    ELSE None

\* resolve(SymbolId)
resolve(table, id) == table[id + 1]

\* An insert path that appends without looking the string up again (used to
\* check that the first insertion wins).
insert_blind(table, s) ==
    [table |-> Append(table, s), id |-> Len(table), how |-> "inserted"]

\* The insert path, one critical section: the first insertion wins, a later
\* caller observes the id it assigned.
insert_if_absent(table, s) ==
    IF lookup(table, s) # None
    THEN [table |-> table, id |-> lookup(table, s)[1], how |-> "observed"]
    ELSE [table |-> Append(table, s), id |-> Len(table), how |-> "inserted"]

Symbol(s, id, how) == [str |-> s, id |-> id, how |-> how]

InitInterner ==
    /\ symbols = <<>>
    /\ task_pc = [t \in Tasks |-> "idle"]
    /\ task_str = [t \in Tasks |-> ""]
    /\ task_left = [t \in Tasks |-> MaxInterns]
    /\ interned = {}

\* intern(s), the lookup: a hit returns the id, a miss goes on to insert.
Lookup(t, s) ==
    /\ task_pc[t] = "idle"
    /\ task_left[t] > 0
    /\ task_left' = [task_left EXCEPT ![t] = @ - 1]
    /\ task_str' = [task_str EXCEPT ![t] = s]
    /\ IF lookup(symbols, s) # None
       THEN /\ interned' = interned \cup {Symbol(s, lookup(symbols, s)[1], "hit")}
            /\ UNCHANGED task_pc
       ELSE /\ task_pc' = [task_pc EXCEPT ![t] = "insert"]
            /\ UNCHANGED interned
    /\ UNCHANGED symbols

\* intern(s), the insert path.
Insert(t) ==
    /\ task_pc[t] = "insert"
    /\ LET done == insert_if_absent(symbols, task_str[t])
       IN  /\ symbols' = done.table
           /\ interned' = interned \cup {Symbol(task_str[t], done.id, done.how)}
    /\ task_pc' = [task_pc EXCEPT ![t] = "idle"]
    /\ UNCHANGED <<task_str, task_left>>

IdleInterner ==
    /\ symbols = <<>>
    /\ task_pc = <<>>
    /\ task_str = <<>>
    /\ task_left = <<>>
    /\ interned = {}

(***************************************************************************)
(* cov: the counter merger.  Its code is not among the source files; it is *)
(* modelled from the specification: the k-th counter of a data file goes   *)
(* to the k-th on_tree arc in declaration order, runs are summed arc by    *)
(* arc, and a checksum mismatch refuses the file for the function.         *)
(* Counts are u64 in the program; the model's counts stay far below 2^64.  *)
(***************************************************************************)
Arc(src, dst, on_tree) == [src |-> src, dst |-> dst, on_tree |-> on_tree]

\* The function whose counters are merged: its arcs in declaration order.
MergedFunction ==
    [checksum |-> "c1",
     arcs |-> <<Arc(0, 1, TRUE), Arc(1, 2, FALSE), Arc(1, 3, TRUE), Arc(2, 3, FALSE)>>]

\* The number of on_tree arcs among the first k arcs
RECURSIVE on_tree_rank(_, _)
on_tree_rank(arcs, k) ==
    IF k = 0 THEN 0
    ELSE on_tree_rank(arcs, k - 1) + (IF arcs[k].on_tree THEN 1 ELSE 0)

\* An arc's count when a run's counter replaces it (used to check that runs
\* are summed).
assign_counter(count, counter) == Some(counter)

\* An arc's count after a run's counter is added to it
add_counter(count, counter) ==
    IF count = None THEN Some(counter) ELSE Some(count[1] + counter)

\* The counts after the counters of one data file are merged in.
merge_counters(fn, cnts, counters) ==
    [k \in DOMAIN fn.arcs |->
        IF fn.arcs[k].on_tree
        THEN add_counter(cnts[k], counters[on_tree_rank(fn.arcs, k)])
        ELSE cnts[k]]

\* The data files the runs are drawn from: a checksum and one counter per
\* on_tree arc.
CounterValues == {0, 1, 5}

DataFiles ==
    [checksum : {"c1", "stale"},
     counters : [1..on_tree_rank(MergedFunction.arcs, Len(MergedFunction.arcs))
                   -> CounterValues]]

InitMerge ==
    /\ data_files \in [1..NumRuns -> DataFiles]
    /\ arc_counts = [k \in DOMAIN MergedFunction.arcs |-> None]
    /\ merged = {}
    /\ warnings = {}

\* Merge data file f into the function, in any order of the files.
Merge(f) ==
    /\ f \notin merged
    /\ merged' = merged \cup {f}
    /\ IF data_files[f].checksum = MergedFunction.checksum
       THEN /\ arc_counts' =
                   merge_counters(MergedFunction, arc_counts, data_files[f].counters)
            /\ UNCHANGED warnings
       ELSE /\ warnings' = warnings \cup {f}
            /\ UNCHANGED arc_counts
    /\ UNCHANGED data_files

IdleMerge ==
    /\ data_files = <<>>
    /\ arc_counts = <<>>
    /\ merged = {}
    /\ warnings = {}

(***************************************************************************)
(* cov: the arc inference engine.  Its code is not among the source files; *)
(* it is modelled from the specification: a block all of whose incident    *)
(* arcs but one have a known count forces the count of that arc by         *)
(* conservation (sum of in-arcs = sum of out-arcs); blocks are visited in  *)
(* any order until none yields a resolution; an arc left without a count   *)
(* is an UnderconstrainedGraphError.  The balancing term of the entry/exit *)
(* pair is the last arc of a graph, from the exit block back to the entry  *)
(* block: it carries the function's invocation count and is never          *)
(* measured.  Two runs, "A" and "B", visit the blocks of the same graph    *)
(* independently.                                                          *)
(***************************************************************************)
Edge(src, dst) == [src |-> src, dst |-> dst]

\* entry 0, exit 3: a branch that joins again
Diamond ==
    [blocks |-> 0..3,
     arcs |-> <<Edge(0, 1), Edge(0, 2), Edge(1, 3), Edge(2, 3), Edge(3, 0)>>]

\* entry 0, exit 3: a loop between blocks 1 and 2
Loop ==
    [blocks |-> 0..3,
     arcs |-> <<Edge(0, 1), Edge(1, 2), Edge(2, 1), Edge(2, 3), Edge(3, 0)>>]

Graphs == {Diamond, Loop}

Runs == {"A", "B"}

in_arcs(g, b) == {k \in DOMAIN g.arcs : g.arcs[k].dst = b}
out_arcs(g, b) == {k \in DOMAIN g.arcs : g.arcs[k].src = b}

\* The arcs at block b that have no count yet
unknown_at(g, cnt, b) == {k \in in_arcs(g, b) \cup out_arcs(g, b) : cnt[k] = None}

\* The sum of the known counts of a set of arcs
RECURSIVE sum_known(_, _)
sum_known(cnt, arcs) ==
    IF arcs = {} THEN 0
    ELSE LET k == CHOOSE k \in arcs : TRUE
         IN  (IF cnt[k] = None THEN 0 ELSE cnt[k][1]) + sum_known(cnt, arcs \ {k})

\* A block yields a resolution whenever some incident arc has no count, the
\* other unknown arcs counted as 0 (used to check that a resolution waits
\* for all the other arcs).
can_resolve_any(g, cnt, b) == unknown_at(g, cnt, b) # {}

\* Block b yields a resolution: exactly one incident arc has no count.
can_resolve(g, cnt, b) == Cardinality(unknown_at(g, cnt, b)) = 1

\* The counts after block b forces the count of its unknown arc.
resolve_at(g, cnt, b) ==
    LET k == CHOOSE k \in unknown_at(g, cnt, b) : TRUE
        forced == IF k \in out_arcs(g, b)
                  THEN sum_known(cnt, in_arcs(g, b)) - sum_known(cnt, out_arcs(g, b))
                  ELSE sum_known(cnt, out_arcs(g, b)) - sum_known(cnt, in_arcs(g, b))
    IN  [cnt EXCEPT ![k] = Some(forced)]

\* How the scan ends: every arc has a count, or the graph is underconstrained.
scan_result(cnt) ==
    IF \A k \in DOMAIN cnt : cnt[k] # None THEN "ok" ELSE "UnderconstrainedGraphError"

\* The counts the merger may have left on the measured arcs.
KnownValues == {0, 1, 2}

PartiallyKnown(g) ==
    {kn \in [DOMAIN g.arcs -> {None} \cup {Some(v) : v \in KnownValues}] :
        kn[Len(g.arcs)] = None}

InitInfer ==
    /\ graph \in Graphs
    /\ known \in PartiallyKnown(graph)
    /\ counts = [r \in Runs |-> known]
    /\ status = [r \in Runs |-> "running"]

\* Run r visits block b, which yields a resolution.
Visit(r, b) ==
    /\ status[r] = "running"
    /\ can_resolve(graph, counts[r], b)
    /\ counts' = [counts EXCEPT ![r] = resolve_at(graph, counts[r], b)]
    /\ UNCHANGED <<graph, known, status>>

\* The scan of run r ends: no block yields a resolution.
Finish(r) ==
    /\ status[r] = "running"
    /\ \A b \in graph.blocks : ~can_resolve(graph, counts[r], b)
    /\ status' = [status EXCEPT ![r] = scan_result(counts[r])]
    /\ UNCHANGED <<graph, known, counts>>

IdleInfer ==
    /\ graph = [blocks |-> {}, arcs |-> <<>>]
    /\ known = <<>>
    /\ counts = <<>>
    /\ status = <<>>

(***************************************************************************)
(* Specifications: one per component, the other components left idle.      *)
(***************************************************************************)
NextSourcePath ==
    /\ IdentifySourcePath
    /\ UNCHANGED <<rustcVars, normalizeVars, configVars, internerVars,
                   mergeVars, inferVars>>

\* InitSourcePath, with every other component idle.
StartSourcePath ==
    /\ InitSourcePath
    /\ IdleRustc /\ IdleNormalize /\ IdleConfig
    /\ IdleInterner /\ IdleMerge /\ IdleInfer

SpecSourcePath == StartSourcePath /\ [][NextSourcePath]_vars

NextRustc ==
    /\ IsRustcCompilingLocalCrate
    /\ UNCHANGED <<sourcepathVars, normalizeVars, configVars, internerVars,
                   mergeVars, inferVars>>

\* InitRustc, with every other component idle.
StartRustc ==
    /\ InitRustc
    /\ IdleSourcePath /\ IdleNormalize /\ IdleConfig
    /\ IdleInterner /\ IdleMerge /\ IdleInfer

SpecRustc == StartRustc /\ [][NextRustc]_vars

NextNormalize ==
    /\ Normalize
    /\ UNCHANGED <<sourcepathVars, rustcVars, configVars, internerVars,
                   mergeVars, inferVars>>

\* InitNormalize, with every other component idle.
StartNormalize ==
    /\ InitNormalize
    /\ IdleSourcePath /\ IdleRustc /\ IdleConfig
    /\ IdleInterner /\ IdleMerge /\ IdleInfer

SpecNormalize == StartNormalize /\ [][NextNormalize]_vars

NextConfig ==
    /\ ParseReportConfig
    /\ UNCHANGED <<sourcepathVars, rustcVars, normalizeVars, internerVars,
                   mergeVars, inferVars>>

\* InitConfig, with every other component idle.
StartConfig ==
    /\ InitConfig
    /\ IdleSourcePath /\ IdleRustc /\ IdleNormalize
    /\ IdleInterner /\ IdleMerge /\ IdleInfer

SpecConfig == StartConfig /\ [][NextConfig]_vars

NextInterner ==
    /\ \/ \E t \in Tasks, s \in InternedStrings : Lookup(t, s)
       \/ \E t \in Tasks : Insert(t)
    /\ UNCHANGED <<sourcepathVars, rustcVars, normalizeVars, configVars,
                   mergeVars, inferVars>>

\* InitInterner, with every other component idle.
StartInterner ==
    /\ InitInterner
    /\ IdleSourcePath /\ IdleRustc /\ IdleNormalize
    /\ IdleConfig /\ IdleMerge /\ IdleInfer

SpecInterner == StartInterner /\ [][NextInterner]_vars

NextMerge ==
    /\ \E f \in DOMAIN data_files : Merge(f)
    /\ UNCHANGED <<sourcepathVars, rustcVars, normalizeVars, configVars,
                   internerVars, inferVars>>

\* InitMerge, with every other component idle.
StartMerge ==
    /\ InitMerge
    /\ IdleSourcePath /\ IdleRustc /\ IdleNormalize
    /\ IdleConfig /\ IdleInterner /\ IdleInfer

SpecMerge == StartMerge /\ [][NextMerge]_vars

NextInfer ==
    /\ \/ \E r \in Runs, b \in graph.blocks : Visit(r, b)
       \/ \E r \in Runs : Finish(r)
    /\ UNCHANGED <<sourcepathVars, rustcVars, normalizeVars, configVars,
                   internerVars, mergeVars>>

\* InitInfer, with every other component idle.
StartInfer ==
    /\ InitInfer
    /\ IdleSourcePath /\ IdleRustc /\ IdleNormalize
    /\ IdleConfig /\ IdleInterner /\ IdleMerge

SpecInfer == StartInfer /\ [][NextInfer]_vars

(***************************************************************************)
(* Claims about is_rustc_compiling_local_crate.                            *)
(***************************************************************************)
\* A flag: an argument that starts with "-".
IsRustcFlag(a) == is_utf8(a) /\ starts_with(a, "-")

\* Argument i is the value of a value-taking flag: the argument before it is
\* such a flag and is not itself a value.
RECURSIVE IsRustcValue(_)
IsRustcValue(i) ==
    /\ i > 1
    /\ rustc_args[i - 1] \in RUSTC_FLAGS_WITH_VALUES
    /\ ~IsRustcValue(i - 1)

\* The arguments that are neither a flag nor the value of a flag.
CratePathIndexes ==
    {i \in DOMAIN rustc_args : ~IsRustcFlag(rustc_args[i]) /\ ~IsRustcValue(i)}

CratePathIndex == CHOOSE i \in CratePathIndexes : \A j \in CratePathIndexes : i <= j

CratePath == rustc_args[CratePathIndex]

\* p is workspace or below it.
Descendant(p, workspace) ==
    \E k \in 0..Len(components(p)) : SubSeq(components(p), 1, k) = components(workspace)

\* A "--" that is not the value of a flag comes before argument i.
DoubleMinusBefore(i) ==
    \E j \in 1..(i - 1) : rustc_args[j] = "--" /\ ~IsRustcValue(j)

AnswersForCratePath ==
    /\ Descendant(CratePath, workspace_path) => compiling_local = Some(TRUE)
    /\ is_absolute(CratePath) /\ ~Descendant(CratePath, workspace_path) =>
           compiling_local = Some(FALSE)

\* C2 as stated: the answer is decided by the first argument that is neither
\* a flag nor the value of a value-taking flag.
C2_AsStated ==
    compiling_local # None /\ CratePathIndexes # {} => AnswersForCratePath

\* C2, amended: the scan stops at a "--" argument and answers false; when
\* no "--" comes before the first argument that is neither a flag nor the
\* value of a value-taking flag, the answer is true if that path is a
\* descendant of workspace_path and false if it is absolute and not a
\* descendant; with no such argument the answer is false.
C2_LocalCrate ==
    compiling_local # None =>
        IF CratePathIndexes # {} /\ ~DoubleMinusBefore(CratePathIndex)
        THEN AnswersForCratePath
        ELSE compiling_local = Some(FALSE)

\* The crate path came after a flag and its value, and is below the workspace.
C2_Witness ==
    /\ compiling_local = Some(TRUE)
    /\ CratePathIndexes # {}
    /\ CratePathIndex = 3
    /\ IsRustcValue(2)
    /\ is_absolute(CratePath)
    /\ is_absolute(rustc_args[2])
    /\ ~Descendant(rustc_args[2], workspace_path)

(***************************************************************************)
(* Claims about normalize.                                                 *)
(***************************************************************************)
\* The special name an argument spells as `--name`, if any.
NameSpelled(a) == {n \in SPECIALS : a = "--" \o n}

\* The special name an argument spells as `--name=value`, if any.
EqNameSpelled(a) == {n \in SPECIALS : starts_with(a, "--" \o n \o "=")}

NameOf(a) == CHOOSE n \in NameSpelled(a) : TRUE
EqNameOf(a) == CHOOSE n \in EqNameSpelled(a) : TRUE
EqValueOf(a) == slice_from(a, Len("--" \o EqNameOf(a) \o "="))

\* Argument i of norm_args is the value of a `--name value` pair: the
\* argument before it spells a special name and is not itself a value.
RECURSIVE IsNormValue(_)
IsNormValue(i) ==
    /\ i > 1
    /\ NameSpelled(norm_args[i - 1]) # {}
    /\ ~IsNormValue(i - 1)

IsNormName(i) == NameSpelled(norm_args[i]) # {} /\ ~IsNormValue(i)

\* The first "--" that is not the value of a special argument; past the end
\* when there is none.
DoubleMinuses == {i \in DOMAIN norm_args : norm_args[i] = "--" /\ ~IsNormValue(i)}

Cut == IF DoubleMinuses = {} THEN Len(norm_args) + 1
       ELSE CHOOSE i \in DoubleMinuses : \A j \in DoubleMinuses : i <= j

\* The elements of a sequence at the indexes that satisfy Keep, in order.
\* The elements of q at the indexes in keep, from index i on, in order.
RECURSIVE SelectIndexes(_, _, _)
SelectIndexes(q, i, keep) ==
    IF i > Len(q) THEN <<>>
    ELSE (IF i \in keep THEN <<q[i]>> ELSE <<>>) \o SelectIndexes(q, i + 1, keep)

LastIndex(at) == CHOOSE i \in at : \A j \in at : j <= i

\* As C3 reads: `--name value` pairs and `--name=value` arguments anywhere.
StatedPair(i) == IsNormName(i) /\ i < Len(norm_args)
StatedEq(i) == EqNameSpelled(norm_args[i]) # {} /\ ~IsNormValue(i)
StatedKept ==
    {i \in DOMAIN norm_args : ~StatedPair(i) /\ ~IsNormValue(i) /\ ~StatedEq(i)}
StatedInserts(n) ==
    {i \in DOMAIN norm_args :
        \/ IsNormValue(i) /\ NameOf(norm_args[i - 1]) = n
        \/ StatedEq(i) /\ EqNameOf(norm_args[i]) = n}
StatedValueAt(i) == IF IsNormValue(i) THEN norm_args[i] ELSE EqValueOf(norm_args[i])

\* C3 as stated: every `--name value` and `--name=value` of a special name
\* is moved to the map, and all other arguments are returned in order.
C3_AsStated ==
    normalized # None =>
        /\ normalized[1] = SelectIndexes(norm_args, 1, StatedKept)
        /\ \A n \in SPECIALS :
               specialized[n] =
                   IF StatedInserts(n) = {} THEN specialized0[n]
                   ELSE Some(StatedValueAt(LastIndex(StatedInserts(n))))

\* What the code extracts: only before the cut, `--name=value` only in an
\* argument that is valid UTF-8, and a special `--name` even with nothing
\* after it.
ExtractedName(i) == i < Cut /\ IsNormName(i)
ExtractedValue(i) == i < Cut /\ IsNormValue(i)
ExtractedEq(i) ==
    /\ i < Cut
    /\ ~IsNormValue(i)
    /\ is_utf8(norm_args[i])
    /\ EqNameSpelled(norm_args[i]) # {}
Kept ==
    {i \in DOMAIN norm_args :
        ~ExtractedName(i) /\ ~ExtractedValue(i) /\ ~ExtractedEq(i)}
Inserts(n) ==
    {i \in DOMAIN norm_args :
        \/ ExtractedValue(i) /\ NameOf(norm_args[i - 1]) = n
        \/ ExtractedEq(i) /\ EqNameOf(norm_args[i]) = n}
ValueAt(i) == IF ExtractedValue(i) THEN norm_args[i] ELSE EqValueOf(norm_args[i])

\* C3, amended: up to the first "--" that is not itself the value of a
\* special argument, for every special name written as `--name value`, or
\* as `--name=value` in an argument that is valid UTF-8, the value is
\* inserted into specialized under that name (the last one when the name is
\* repeated) and neither the name nor the value appears in the returned
\* vector; a special `--name` that ends the sequence is dropped and inserts
\* nothing; all remaining arguments, that "--" and everything after it
\* included, are returned, each exactly once and in their original order.
C3_Partition ==
    normalized # None =>
        /\ normalized[1] = SelectIndexes(norm_args, 1, Kept)
        /\ \A n \in SPECIALS :
               specialized[n] =
                   IF Inserts(n) = {} THEN specialized0[n]
                   ELSE Some(ValueAt(LastIndex(Inserts(n))))

\* Both spellings were extracted in one call.
C3_Witness ==
    /\ normalized # None
    /\ \E i \in DOMAIN norm_args : ExtractedValue(i)
    /\ \E i \in DOMAIN norm_args : ExtractedEq(i)
    /\ specialized # specialized0

IsSuffix(tail, q) ==
    Len(tail) <= Len(q) /\ SubSeq(q, Len(q) - Len(tail) + 1, Len(q)) = tail

\* From argument d on, the arguments are the end of the returned vector and
\* the map is what the arguments before d alone leave.
PassedThroughFrom(d) ==
    /\ IsSuffix(SubSeq(norm_args, d, Len(norm_args)), normalized[1])
    /\ specialized = normalize(SubSeq(norm_args, 1, d - 1), specialized0).specialized

FirstDoubleMinus ==
    CHOOSE i \in DOMAIN norm_args :
        norm_args[i] = "--" /\ \A j \in 1..(i - 1) : norm_args[j] # "--"

\* C9 as stated: the first "--" and everything after it is passed through.
C9_AsStated ==
    normalized # None /\ (\E i \in DOMAIN norm_args : norm_args[i] = "--") =>
        PassedThroughFrom(FirstDoubleMinus)

\* C9, amended: normalize passes everything from the first "--" that is not
\* the value of a preceding special `--name` onward through unchanged: that
\* "--" and every argument after it end the returned vector in their
\* original order, and none of them is inserted into specialized, even when
\* it is spelled like a special argument.
C9_PassThrough ==
    normalized # None /\ DoubleMinuses # {} => PassedThroughFrom(Cut)

\* An argument spelled like a special one came after "--" and was returned,
\* after a special argument before "--" was extracted.
C9_Witness ==
    /\ normalized # None
    /\ Cut = 2
    /\ Len(norm_args) = 3
    /\ norm_args[3] = "--target=x"
    /\ specialized # specialized0
    /\ normalized[1] = <<"--", "--target=x">>

(***************************************************************************)
(* Claims about the allowed source types.                                  *)
(***************************************************************************)
\* The flag of each category.
CategoryFlag ==
    [Local |-> SourceType_LOCAL, MacroExpansion |-> SourceType_MACROS,
     Unknown |-> SourceType_UNKNOWN, ExternalPackage |-> SourceType_CRATES,
     ToolchainSource |-> SourceType_RUSTSRC]

Categories == DOMAIN CategoryFlag

\* The categories whose flag is set in bits, when no other bit is.
CategoriesOf(bits) == {c \in Categories : (bits \div CategoryFlag[c]) % 2 = 1}

OnlyCategoryBits(bits) == bits \in 0..31

\* The categories a name of --include stands for.
CategoriesNamed(name) ==
    CASE name = "local" -> {"Local"}
      [] name = "macros" -> {"MacroExpansion"}
      [] name = "unknown" -> {"Unknown"}
      [] name = "crates" -> {"ExternalPackage"}
      [] name = "rustsrc" -> {"ToolchainSource"}
      [] name = "all" -> Categories

Recognized == {"local", "macros", "unknown", "crates", "rustsrc", "all"}

\* C4: the allowed set is {Local, MacroExpansion, Unknown} when no category
\* is named, the union of the categories named when all names are
\* recognized, and an unrecognized name makes from_multi_str return
\* UnsupportedSourceTypeName, and no set is produced.
C4_AllowedCategories ==
    allowed_source_types.kind # "pending" =>
        IF include = None
        THEN /\ allowed_source_types.kind = "ok"
             /\ OnlyCategoryBits(allowed_source_types.bits)
             /\ CategoriesOf(allowed_source_types.bits) =
                    {"Local", "MacroExpansion", "Unknown"}
        ELSE IF \A i \in DOMAIN include[1] : include[1][i] \in Recognized
        THEN /\ allowed_source_types.kind = "ok"
             /\ multi = Some(Ok(allowed_source_types.bits))
             /\ OnlyCategoryBits(allowed_source_types.bits)
             /\ CategoriesOf(allowed_source_types.bits) =
                    UNION {CategoriesNamed(include[1][i]) : i \in DOMAIN include[1]}
        ELSE /\ multi = Some(UnsupportedSourceTypeName)
             /\ allowed_source_types.kind # "ok"

\* Two different categories were named and both are allowed.
C4_Witness ==
    /\ include = Some(<<"rustsrc", "crates">>)
    /\ allowed_source_types.kind = "ok"
    /\ CategoriesOf(allowed_source_types.bits) =
           {"ExternalPackage", "ToolchainSource"}

(***************************************************************************)
(* Claims about the interner.                                              *)
(***************************************************************************)
\* C5: every intern call of one string, from any task, has returned the
\* same SymbolId, and resolving that id gives a string equal to it.
C5_InternerIdentity ==
    /\ \A x \in interned, y \in interned : x.str = y.str => x.id = y.id
    /\ \A x \in interned : /\ x.id + 1 \in DOMAIN symbols
                           /\ resolve(symbols, x.id) = x.str

\* Two tasks missed the same string together: one inserted it and the other
\* observed the id of that insertion.
C5_Witness ==
    \E x \in interned, y \in interned :
        /\ x.str = y.str
        /\ x.how = "inserted"
        /\ y.how = "observed"
        /\ x.id > 0

(***************************************************************************)
(* Claims about the counter merger.                                        *)
(***************************************************************************)
\* The sum of counter k of the data files in fs
RECURSIVE SumOfCounters(_, _)
SumOfCounters(fs, k) ==
    IF fs = {} THEN 0
    ELSE LET f == CHOOSE f \in fs : TRUE
         IN  data_files[f].counters[k] + SumOfCounters(fs \ {f}, k)

\* The merged files whose checksum is the function's
Accepted == {f \in merged : data_files[f].checksum = MergedFunction.checksum}

\* C6: whatever the order in which the data files were merged, the count of
\* every on_tree arc is the sum of its counter over the files merged, which
\* depends on the set of files only.
C6_MergeOrderIndependent ==
    \A k \in DOMAIN arc_counts :
        arc_counts[k] =
            IF MergedFunction.arcs[k].on_tree /\ Accepted # {}
            THEN Some(SumOfCounters(Accepted, on_tree_rank(MergedFunction.arcs, k)))
            ELSE None

\* All the runs are merged, two of them with different counters for the
\* two on_tree arcs.
C6_Witness ==
    /\ merged = DOMAIN data_files
    /\ Cardinality(Accepted) >= 2
    /\ \E f \in Accepted, h \in Accepted :
           /\ data_files[f].counters = <<1, 5>>
           /\ data_files[h].counters = <<5, 0>>
    /\ arc_counts[1] # arc_counts[3]

(***************************************************************************)
(* Claims about the arc inference engine.                                  *)
(***************************************************************************)
BothDone == \A r \in Runs : status[r] # "running"

\* The two runs end alike: the same count on every arc, the same result.
SameOutcome == counts["A"] = counts["B"] /\ status["A"] = status["B"]

\* A run never ends with a count on an arc it did not resolve, nor with
\* "ok" while an arc has no count.
NoGuess ==
    \A r \in Runs : status[r] # "running" =>
        /\ status[r] = "ok" <=> \A k \in DOMAIN known : counts[r][k] # None
        /\ \A k \in DOMAIN known :
               counts[r][k] # None /\ known[k] = None =>
                   \E b \in {graph.arcs[k].src, graph.arcs[k].dst} :
                       /\ unknown_at(graph, counts[r], b) = {}
                       /\ sum_known(counts[r], in_arcs(graph, b))
                              = sum_known(counts[r], out_arcs(graph, b))

Conserving(f) ==
    \A b \in graph.blocks :
        sum_known(f, in_arcs(graph, b)) = sum_known(f, out_arcs(graph, b))

Consistent ==
    \E f \in [DOMAIN known -> {Some(v) : v \in 0..MaxFlow}] :
        /\ \A k \in DOMAIN known : known[k] # None => f[k] = known[k]
        /\ Conserving(f)

====
